---------------------------- MODULE Spec2Model ----------------------------
(***************************************************************************)
(* Grid calculator (dddrop/grid-calculator): the GridCalculator engine of  *)
(* src/grid_calculator.rs, the configuration validation of src/config.rs   *)
(* and the command line program of src/main.rs.                            *)
(*                                                                         *)
(* Numbers.  The program computes in f64.  The model computes in exact     *)
(* rational arithmetic: a number is a pair <<n, d>> in lowest terms with   *)
(* d > 0.  Rounding, infinities and NaN are outside the model; every sum   *)
(* a formula takes over the history is a left fold in call order, which is *)
(* the order in which the code accumulates it.                             *)
(***************************************************************************)
EXTENDS Integers, Sequences, FiniteSets, TLC

(***************************************************************************)
(* Bounds of the model.                                                    *)
(***************************************************************************)
\* calls of calculate_grid in one session (between two resets)
MaxSteps == 3
\* levels in the list of a configuration or strategy
MaxLevels == 2
\* comma-separated pieces of the --levels argument
MaxTokens == 2

(***************************************************************************)
(* f64 values as exact rationals.                                          *)
(***************************************************************************)
Abs(x) == IF x < 0 THEN -x ELSE x

RECURSIVE Gcd(_, _)
Gcd(a, b) == IF b = 0 THEN a ELSE Gcd(b, a % b)

\* the rational n/d (d # 0) in lowest terms with a positive denominator
Norm(n, d) ==
    LET s == IF d < 0 THEN -1 ELSE 1
        g == Gcd(Abs(n), Abs(d))
    IN  << (s * n) \div g, Abs(d) \div g >>

\* an integer literal such as 100.0
F(n) == << n, 1 >>

\* the outcome of a division by zero (inf or NaN in f64): the one value whose
\* denominator is not positive
NonFinite == << 0, 0 >>

\* x is an ordinary number, neither inf nor NaN
IsFinite(x) == x[2] > 0

FAdd(a, b) ==
    LET g == Gcd(a[2], b[2])
    IN  Norm(a[1] * (b[2] \div g) + b[1] * (a[2] \div g), (a[2] \div g) * b[2])

FNeg(a) == << -a[1], a[2] >>

FSub(a, b) == FAdd(a, FNeg(b))

FMul(a, b) ==
    LET g1 == Gcd(Abs(a[1]), b[2])
        g2 == Gcd(Abs(b[1]), a[2])
        h1 == IF g1 = 0 THEN 1 ELSE g1
        h2 == IF g2 = 0 THEN 1 ELSE g2
    IN  Norm((a[1] \div h1) * (b[1] \div h2), (a[2] \div h2) * (b[2] \div h1))

FDiv(a, b) ==
    IF b[1] = 0 THEN NonFinite
    ELSE FMul(a, IF b[1] < 0 THEN << -b[2], -b[1] >> ELSE << b[2], b[1] >>)

\* a > b
FGt(a, b) == a[1] * b[2] > b[1] * a[2]

\* a < b
FLt(a, b) == FGt(b, a)

\* a <= b
FLe(a, b) == ~FGt(a, b)

\* a >= b
FGe(a, b) == ~FGt(b, a)

Zero == F(0)
One == F(1)
Hundred == F(100)

(***************************************************************************)
(* Inputs.                                                                 *)
(***************************************************************************)
GridTypes == {"Fixed", "Average"}
PositionModes == {"Fixed", "CurrentMultiple", "IncrementMultiple"}

\* initial prices an engine is built with
Prices == {F(100), F(-4)}
\* base sizes: positive, zero and negative
Sizes == {F(100), F(0), F(-2)}
\* multipliers: growing, shrinking, zero and negative
Multipliers == {F(2), <<1, 2>>, F(0), F(-1)}
\* grid percentages: inside (0, 100) and outside
Levels == {F(10), F(50), F(200)}

(***************************************************************************)
(* State.                                                                  *)
(***************************************************************************)
VARIABLES
    calculator,         \* the GridCalculator, or NoCalculator before GridCalculator::new
    args,               \* the five arguments GridCalculator::new was called with
    percents,           \* the grid_percent of every calculate_grid call of this session
    returned,           \* the GridResult the last calculate_grid call returned
    steps_before_reset, \* the history length the last reset cleared, -1 before any reset
    pc,                 \* where the process is in main
    command,            \* the parsed command line (Cli::parse)
    file,               \* what Config::from_file finds at the --config path
    cfg,                \* the Config handed to run_calculation
    levels,             \* the slice print_calculation_results iterates over
    loop_i,             \* the index i of that loop: the iterations done so far
    stdout,             \* the header and the rows printed so far
    stderr,             \* the error message printed, "" when none
    exit_code           \* the exit code of the process, -1 while it runs

engine_vars == << calculator, args, percents, returned, steps_before_reset >>
cli_vars == << pc, command, file, cfg, levels, loop_i, stdout, stderr, exit_code >>
vars == << engine_vars, cli_vars >>

\* no GridCalculator has been constructed
NoCalculator == [ constructed |-> FALSE ]
\* no GridResult has been returned (reset returns nothing)
NoResult == [ returned |-> FALSE ]
\* the engine is used as a library: there is no command line, file or Config
NoCommand == [ cmd |-> "none" ]
NoFile == [ loaded |-> FALSE, present |-> FALSE ]
NoConfig == [ config |-> FALSE ]

(***************************************************************************)
(* GridCalculator (src/grid_calculator.rs).                                *)
(***************************************************************************)
New(initial_price, grid_type, position_mode, base_size, multiplier) ==
    [ initial_price    |-> initial_price,
      grid_type        |-> grid_type,
      position_mode    |-> position_mode,
      base_size        |-> base_size,
      multiplier       |-> multiplier,
      current_position |-> Zero,
      total_cost       |-> Zero,
      average_price    |-> initial_price,
      last_increment   |-> Zero,
      grid_history     |-> << >> ]

\* a grid price that forgets the drop and returns the reference price itself
GridPrice_NoDrop(c, grid_percent) ==
    IF c.grid_type = "Fixed" THEN c.initial_price ELSE c.average_price


\* a grid price that adds the percentage to the reference price
GridPrice_Rise(c, grid_percent) ==
    IF c.grid_type = "Fixed"
    THEN FMul(c.initial_price, FAdd(One, FDiv(grid_percent, Hundred)))
    ELSE FMul(c.average_price, FAdd(One, FDiv(grid_percent, Hundred)))


\* a grid price that ignores the grid type and always starts from the running average
GridPrice_AlwaysAverage(c, grid_percent) ==
    FMul(c.average_price, FSub(One, FDiv(grid_percent, Hundred)))

\* a grid price that ignores the grid type and always starts from the initial price
GridPrice_AlwaysInitial(c, grid_percent) ==
    FMul(c.initial_price, FSub(One, FDiv(grid_percent, Hundred)))

\* calculate_grid, first match: the grid price, from the state before the call
GridPrice(c, grid_percent) ==
    IF c.grid_type = "Fixed"
    THEN FMul(c.initial_price, FSub(One, FDiv(grid_percent, Hundred)))
    ELSE FMul(c.average_price, FSub(One, FDiv(grid_percent, Hundred)))

\* a position size whose two multiple modes never fall back to base_size after
\* the first step of a session
PositionSize_NoReseed(c) ==
    CASE c.position_mode = "Fixed" -> c.base_size
      [] c.position_mode = "CurrentMultiple" ->
            IF c.grid_history = << >>
            THEN c.base_size
            ELSE FMul(c.current_position, c.multiplier)
      [] c.position_mode = "IncrementMultiple" ->
            IF c.grid_history = << >>
            THEN c.base_size
            ELSE FMul(c.last_increment, c.multiplier)

\* a position size whose two multiple modes scale the other one's quantity
PositionSize_SwappedBasis(c) ==
    CASE c.position_mode = "Fixed" -> c.base_size
      [] c.position_mode = "CurrentMultiple" ->
            IF c.last_increment = Zero
            THEN c.base_size
            ELSE FMul(c.last_increment, c.multiplier)
      [] c.position_mode = "IncrementMultiple" ->
            IF c.current_position = Zero
            THEN c.base_size
            ELSE FMul(c.current_position, c.multiplier)

\* calculate_grid, second match: the position size, from the state before the call
PositionSize(c) ==
    CASE c.position_mode = "Fixed" -> c.base_size
      [] c.position_mode = "CurrentMultiple" ->
            IF c.current_position = Zero
            THEN c.base_size
            ELSE FMul(c.current_position, c.multiplier)
      [] c.position_mode = "IncrementMultiple" ->
            IF c.last_increment = Zero
            THEN c.base_size
            ELSE FMul(c.last_increment, c.multiplier)

\* a fold that divides whatever the position is after the step
UpdateState_UngatedDivision(c, grid_price, position_size) ==
    LET current_position == FAdd(c.current_position, position_size)
        total_cost == FAdd(c.total_cost, FMul(position_size, grid_price))
    IN  [ c EXCEPT !.last_increment = position_size,
                   !.current_position = current_position,
                   !.total_cost = total_cost,
                   !.average_price = FDiv(total_cost, current_position) ]


\* a fold that adds the size to the cost without multiplying it by the price
UpdateState_CostWithoutPrice(c, grid_price, position_size) ==
    LET current_position == FAdd(c.current_position, position_size)
        total_cost == FAdd(c.total_cost, position_size)
    IN  [ c EXCEPT !.last_increment = position_size,
                   !.current_position = current_position,
                   !.total_cost = total_cost,
                   !.average_price =
                        IF FGt(current_position, Zero)
                        THEN FDiv(total_cost, current_position)
                        ELSE @ ]

\* a fold that computes the average before it adds this step's cost
UpdateState_StaleAverage(c, grid_price, position_size) ==
    LET current_position == FAdd(c.current_position, position_size)
        total_cost == FAdd(c.total_cost, FMul(position_size, grid_price))
    IN  [ c EXCEPT !.last_increment = position_size,
                   !.current_position = current_position,
                   !.total_cost = total_cost,
                   !.average_price =
                        IF FGt(current_position, Zero)
                        THEN FDiv(c.total_cost, current_position)
                        ELSE @ ]

\* calculate_grid, "Update state" and "Calculate new average price"
UpdateState(c, grid_price, position_size) ==
    LET current_position == FAdd(c.current_position, position_size)
        total_cost == FAdd(c.total_cost, FMul(position_size, grid_price))
    IN  [ c EXCEPT !.last_increment = position_size,
                   !.current_position = current_position,
                   !.total_cost = total_cost,
                   !.average_price =
                        IF FGt(current_position, Zero)
                        THEN FDiv(total_cost, current_position)
                        ELSE @ ]

\* a GridResult that reports the step alone in place of the running totals
GridResult_StepOnly(c, grid_price, position_size) ==
    [ grid_price     |-> grid_price,
      position_size  |-> position_size,
      total_position |-> position_size,
      average_price  |-> c.average_price,
      total_cost     |-> FMul(position_size, grid_price) ]


\* the GridResult built from the state after the fold
GridResult(c, grid_price, position_size) ==
    [ grid_price     |-> grid_price,
      position_size  |-> position_size,
      total_position |-> c.current_position,
      average_price  |-> c.average_price,
      total_cost     |-> c.total_cost ]

\* a calculate_grid that puts the new entry in front of the history
CalculateGrid_PushFront(c, grid_percent) ==
    LET grid_price == GridPrice(c, grid_percent)
        position_size == PositionSize(c)
        folded == UpdateState(c, grid_price, position_size)
        result == GridResult(folded, grid_price, position_size)
    IN  [ calc   |-> [ folded EXCEPT !.grid_history = << result >> \o @ ],
          result |-> result ]


\* calculate_grid: the calculator after the call and the result it returns
CalculateGrid(c, grid_percent) ==
    LET grid_price == GridPrice(c, grid_percent)
        position_size == PositionSize(c)
        folded == UpdateState(c, grid_price, position_size)
        result == GridResult(folded, grid_price, position_size)
    IN  [ calc   |-> [ folded EXCEPT !.grid_history = Append(@, result) ],
          result |-> result ]

\* a reset that leaves average_price at the value of the session that ended
Reset_KeepsAverage(c) ==
    [ c EXCEPT !.current_position = Zero,
               !.total_cost = Zero,
               !.last_increment = Zero,
               !.grid_history = << >> ]


\* a reset that forgets to clear current_position
Reset_KeepsPosition(c) ==
    [ c EXCEPT !.total_cost = Zero,
               !.average_price = c.initial_price,
               !.last_increment = Zero,
               !.grid_history = << >> ]

\* a reset that forgets to clear last_increment
Reset_KeepsIncrement(c) ==
    [ c EXCEPT !.current_position = Zero,
               !.total_cost = Zero,
               !.average_price = c.initial_price,
               !.grid_history = << >> ]

Reset(c) ==
    [ c EXCEPT !.current_position = Zero,
               !.total_cost = Zero,
               !.average_price = c.initial_price,
               !.last_increment = Zero,
               !.grid_history = << >> ]

get_history(c) == c.grid_history

(***************************************************************************)
(* The engine driven through its public interface by any caller.           *)
(***************************************************************************)
Init ==
    /\ \E initial_price \in Prices, grid_type \in GridTypes,
          position_mode \in PositionModes, base_size \in Sizes,
          multiplier \in Multipliers :
            /\ args = << initial_price, grid_type, position_mode, base_size, multiplier >>
            /\ calculator = New(initial_price, grid_type, position_mode, base_size, multiplier)
    /\ percents = << >>
    /\ returned = NoResult
    /\ steps_before_reset = -1
    /\ pc = "library"
    /\ command = NoCommand
    /\ file = NoFile
    /\ cfg = NoConfig
    /\ levels = << >>
    /\ loop_i = 0
    /\ stdout = << >>
    /\ stderr = ""
    /\ exit_code = -1

calculate_grid(grid_percent) ==
    /\ pc = "library"
    /\ calculator # NoCalculator
    /\ Len(calculator.grid_history) < MaxSteps
    /\ LET out == CalculateGrid(calculator, grid_percent)
       IN  /\ calculator' = out.calc
           /\ returned' = out.result
    /\ percents' = Append(percents, grid_percent)
    /\ UNCHANGED << args, steps_before_reset, cli_vars >>

reset ==
    /\ pc = "library"
    /\ calculator # NoCalculator
    /\ steps_before_reset' = Len(calculator.grid_history)
    /\ calculator' = Reset(calculator)
    /\ percents' = << >>
    /\ returned' = NoResult
    /\ UNCHANGED << args, cli_vars >>

Next ==
    \/ \E grid_percent \in Levels : calculate_grid(grid_percent)
    \/ reset

Spec == Init /\ [][Next]_vars

(***************************************************************************)
(* Config and Strategy (src/config.rs).                                    *)
(***************************************************************************)
\* Option<f64>
None == [ some |-> FALSE ]
Some(x) == [ some |-> TRUE, value |-> x ]

\* Result<(), String>
Ok == [ ok |-> TRUE, msg |-> "" ]
Err(msg) == [ ok |-> FALSE, msg |-> msg ]

\* str::contains("multiple"), on the mode strings of the model
ContainsMultiple(mode) ==
    mode \in {"current-multiple", "increment-multiple", "multiple"}

\* a range test that lets the two borders 0 and 100 through
AllLevelsInRange_Inclusive(ls) ==
    \A i \in 1..Len(ls) : ~(FLt(ls[i], Zero) \/ FGt(ls[i], Hundred))

\* the first level of ls that is <= 0 or >= 100 makes the loop return an error
AllLevelsInRange(ls) ==
    \A i \in 1..Len(ls) : ~(FLe(ls[i], Zero) \/ FGe(ls[i], Hundred))

\* a Config::validate without the test for a missing multiplier
ConfigValidate_NoMultiplierCheck(config) ==
    IF config.base.grid_type \notin {"fixed", "average"}
    THEN Err("Invalid grid_type")
    ELSE IF config.position.mode \notin {"fixed", "current-multiple", "increment-multiple"}
    THEN Err("Invalid position mode")
    ELSE IF config.grid.levels = << >>
    THEN Err("Grid levels cannot be empty")
    ELSE IF ~AllLevelsInRange(config.grid.levels)
    THEN Err("Invalid grid level")
    ELSE Ok

\* Config::validate
ConfigValidate(config) ==
    IF config.base.grid_type \notin {"fixed", "average"}
    THEN Err("Invalid grid_type")
    ELSE IF config.position.mode \notin {"fixed", "current-multiple", "increment-multiple"}
    THEN Err("Invalid position mode")
    ELSE IF ContainsMultiple(config.position.mode) /\ config.position.multiplier = None
    THEN Err("Multiplier is required for multiple position modes")
    ELSE IF config.grid.levels = << >>
    THEN Err("Grid levels cannot be empty")
    ELSE IF ~AllLevelsInRange(config.grid.levels)
    THEN Err("Invalid grid level")
    ELSE Ok

\* Strategy::validate
StrategyValidate(strategy) ==
    IF strategy.grid_type \notin {"fixed", "average"}
    THEN Err("Invalid grid_type in strategy")
    ELSE IF strategy.position_mode \notin {"fixed", "current-multiple", "increment-multiple"}
    THEN Err("Invalid position mode in strategy")
    ELSE IF ContainsMultiple(strategy.position_mode) /\ strategy.multiplier = None
    THEN Err("Multiplier is required for strategy")
    ELSE IF strategy.levels = << >>
    THEN Err("Grid levels cannot be empty for strategy")
    ELSE IF ~AllLevelsInRange(strategy.levels)
    THEN Err("Invalid grid level in strategy")
    ELSE Ok

\* a to_config that leaves the multiplier behind
ToConfig_DropsMultiplier(strategy) ==
    [ base       |-> [ initial_price |-> strategy.initial_price,
                       grid_type     |-> strategy.grid_type ],
      grid       |-> [ levels |-> strategy.levels ],
      position   |-> [ mode       |-> strategy.position_mode,
                       base_size  |-> strategy.base_size,
                       multiplier |-> None ],
      strategies |-> << >>,
      has_strategies |-> FALSE ]


\* Strategy::to_config
ToConfig(strategy) ==
    [ base       |-> [ initial_price |-> strategy.initial_price,
                       grid_type     |-> strategy.grid_type ],
      grid       |-> [ levels |-> strategy.levels ],
      position   |-> [ mode       |-> strategy.position_mode,
                       base_size  |-> strategy.base_size,
                       multiplier |-> strategy.multiplier ],
      strategies |-> << >>,
      has_strategies |-> FALSE ]

(***************************************************************************)
(* The command line program (src/main.rs).                                 *)
(***************************************************************************)
\* parse_grid_type
parse_grid_type(grid_type) ==
    CASE grid_type = "fixed" -> [ ok |-> TRUE, value |-> "Fixed" ]
      [] grid_type = "average" -> [ ok |-> TRUE, value |-> "Average" ]
      [] OTHER -> [ ok |-> FALSE, value |-> "Invalid grid type" ]

\* parse_position_mode
parse_position_mode(mode) ==
    CASE mode = "fixed" -> [ ok |-> TRUE, value |-> "Fixed" ]
      [] mode = "current-multiple" -> [ ok |-> TRUE, value |-> "CurrentMultiple" ]
      [] mode = "increment-multiple" -> [ ok |-> TRUE, value |-> "IncrementMultiple" ]
      [] OTHER -> [ ok |-> FALSE, value |-> "Invalid position mode" ]

\* Option::unwrap_or
UnwrapOr(opt, default) == IF opt.some THEN opt.value ELSE default

\* {:.2}: the number of hundredths nearest to x, a tie going to the even one
Fmt2(x) ==
    LET n == x[1] * 100
        d == x[2]
        q == n \div d
        r == n % d
    IN  IF 2 * r > d \/ (2 * r = d /\ q % 2 = 1) THEN q + 1 ELSE q

\* s.trim().parse::<f64>().ok(), on the tokens of the model
ParseLevel(token) ==
    CASE token = "10" -> Some(F(10))
      [] token = " 50 " -> Some(F(50))
      [] token = "200" -> Some(F(200))
      [] OTHER -> None

\* a parse of the list that stops at the first token that is not a number
RECURSIVE FilterMapParse_StopsAtBadToken(_)
FilterMapParse_StopsAtBadToken(tokens) ==
    IF tokens = << >> THEN << >>
    ELSE LET head == ParseLevel(Head(tokens))
         IN  IF head.some
             THEN << head.value >> \o FilterMapParse_StopsAtBadToken(Tail(tokens))
             ELSE << >>


\* levels.split(',').filter_map(|s| s.trim().parse().ok()).collect()
RECURSIVE FilterMapParse(_)
FilterMapParse(tokens) ==
    IF tokens = << >> THEN << >>
    ELSE LET head == ParseLevel(Head(tokens))
         IN  IF head.some THEN << head.value >> \o FilterMapParse(Tail(tokens))
             ELSE FilterMapParse(Tail(tokens))

\* strategies.iter().find(|s| s.name == strategy_name): the index of the first
\* strategy of that name, 0 when there is none
RECURSIVE Find(_, _, _)
Find(strategies, name, i) ==
    IF i > Len(strategies) THEN 0
    ELSE IF strategies[i].name = name THEN i
    ELSE Find(strategies, name, i + 1)

\* a line that shows the index of the loop as it is, counted from 0
Row_ZeroBased(i, level, result) ==
    [ grid          |-> i,
      level         |-> Fmt2(level),
      grid_price    |-> Fmt2(result.grid_price),
      position_size |-> Fmt2(result.position_size),
      total_position |-> Fmt2(result.total_position),
      average_price |-> Fmt2(result.average_price) ]


\* one line of print_calculation_results
Row(i, level, result) ==
    [ grid          |-> i + 1,
      level         |-> Fmt2(level),
      grid_price    |-> Fmt2(result.grid_price),
      position_size |-> Fmt2(result.position_size),
      total_position |-> Fmt2(result.total_position),
      average_price |-> Fmt2(result.average_price) ]

\* the lines of print_calculation_header that show the parameters
Header(price, grid_type, mode, size, multiplier) ==
    [ grid          |-> 0,
      initial_price |-> Fmt2(price),
      grid_type     |-> grid_type,
      mode          |-> mode,
      base_size     |-> Fmt2(size),
      multiplier    |-> IF multiplier.some /\ ContainsMultiple(mode)
                        THEN Some(Fmt2(multiplier.value)) ELSE None ]

(***************************************************************************)
(* Inputs of the program: command lines and configuration files.           *)
(***************************************************************************)
\* the sequences over S of length lo..hi
SeqsOf(S, lo, hi) == UNION { [1..k -> S] : k \in lo..hi }

\* initial_price values of a configuration: positive, zero and negative
ConfigPrices == {F(100), F(0), F(-4)}
\* grid_type strings of a configuration: the two valid ones and another
GridTypeStrings == {"fixed", "average", "median"}
\* position mode strings of a configuration: the three valid ones and another
ModeStrings == {"fixed", "current-multiple", "increment-multiple", "multiple"}
\* levels of a configuration: inside (0, 100) and on its two borders
ConfigLevels == {F(10), F(50), F(0), F(100)}
\* the multiplier of a configuration: absent or present
ConfigMultipliers == {None, Some(F(2))}

Configs ==
    [ base       : [ initial_price : ConfigPrices, grid_type : GridTypeStrings ],
      grid       : [ levels : SeqsOf(ConfigLevels, 0, MaxLevels) ],
      position   : [ mode : ModeStrings, base_size : {F(100)},
                     multiplier : ConfigMultipliers ],
      strategies : {<< >>},
      has_strategies : {FALSE} ]

Strategies(names) ==
    [ name          : names,
      initial_price : ConfigPrices,
      grid_type     : GridTypeStrings,
      levels        : SeqsOf(ConfigLevels, 0, MaxLevels),
      position_mode : ModeStrings,
      base_size     : {F(100)},
      multiplier    : ConfigMultipliers ]

\* a configuration that passes validation, as in test_config_validation
ValidConfig ==
    [ base       |-> [ initial_price |-> F(100), grid_type |-> "fixed" ],
      grid       |-> [ levels |-> << F(10), F(50) >> ],
      position   |-> [ mode |-> "fixed", base_size |-> F(100), multiplier |-> None ],
      strategies |-> << >>,
      has_strategies |-> FALSE ]

ValidStrategy(name) ==
    [ name          |-> name,
      initial_price |-> F(100),
      grid_type     |-> "average",
      levels        |-> << F(10) >>,
      position_mode |-> "current-multiple",
      base_size     |-> F(100),
      multiplier    |-> Some(F(2)) ]

\* Config::from_file failed: the file is missing or is not a Config
FileError == [ loaded |-> FALSE, present |-> TRUE ]
FileOf(config) == [ loaded |-> TRUE, config |-> config ]
WithStrategies(config, strategies) ==
    [ config EXCEPT !.strategies = strategies, !.has_strategies = TRUE ]

\* f is a file at the --config path: unreadable; any main configuration
\* without strategies; a valid main configuration with an empty list of
\* strategies, with any one strategy, or with a valid strategy and any second one
IsFile(f) ==
    \/ f = FileError
    \/ \E c \in Configs : f = FileOf(c)
    \/ f = FileOf(WithStrategies(ValidConfig, << >>))
    \/ \E s \in Strategies({"a"}) : f = FileOf(WithStrategies(ValidConfig, << s >>))
    \/ \E s \in Strategies({"a", "b"}) :
            f = FileOf(WithStrategies(ValidConfig, << ValidStrategy("a"), s >>))

\* the pieces of --levels between commas
Tokens == {"10", " 50 ", "200", "abc", ""}

Commands ==
    [ cmd : {"Calculate"}, price : {F(100), F(-4)}, grid_type : GridTypes,
      levels : SeqsOf(Tokens, 1, MaxTokens), mode : PositionModes,
      size : {F(100)}, multiplier : {F(1), F(2)} ]
    \cup [ cmd : {"FromConfig"}, strategy : {None, Some("a"), Some("b")} ]
    \cup [ cmd : {"ListStrategies"} ]

(***************************************************************************)
(* main.                                                                   *)
(***************************************************************************)
CliInit ==
    /\ calculator = NoCalculator
    /\ args = << >>
    /\ percents = << >>
    /\ returned = NoResult
    /\ steps_before_reset = -1
    /\ pc = "main"
    /\ command \in Commands
    /\ IF command.cmd = "Calculate" THEN file = NoFile ELSE IsFile(file)
    /\ cfg = NoConfig
    /\ levels = << >>
    /\ loop_i = 0
    /\ stdout = << >>
    /\ stderr = ""
    /\ exit_code = -1

\* an error path that prints its message and still reports success
Exit1_Code0(message) ==
    /\ stderr' = message
    /\ exit_code' = 0
    /\ pc' = "exit"


\* eprintln!(message); std::process::exit(1)
Exit1(message) ==
    /\ stderr' = message
    /\ exit_code' = 1
    /\ pc' = "exit"

\* Commands::Calculate, up to the call of print_calculation_results
main_calculate ==
    /\ pc = "main"
    /\ command.cmd = "Calculate"
    /\ LET grid_levels == FilterMapParse(command.levels)
       IN  IF grid_levels = << >>
           THEN /\ Exit1("Error: No valid grid levels provided")
                /\ UNCHANGED << calculator, args, levels, stdout >>
           ELSE /\ calculator' = New(command.price, command.grid_type, command.mode,
                                     command.size, command.multiplier)
                /\ args' = << command.price, command.grid_type, command.mode,
                              command.size, command.multiplier >>
                /\ stdout' = << Header(command.price, command.grid_type, command.mode,
                                       command.size,
                                       IF command.mode \in {"CurrentMultiple",
                                                            "IncrementMultiple"}
                                       THEN Some(command.multiplier) ELSE None) >>
                /\ levels' = grid_levels
                /\ pc' = "print_calculation_results"
                /\ UNCHANGED << stderr, exit_code >>
    /\ UNCHANGED << percents, returned, steps_before_reset, command, file, cfg, loop_i >>

\* Commands::FromConfig, up to the call of run_calculation
main_from_config ==
    /\ pc = "main"
    /\ command.cmd = "FromConfig"
    /\ IF ~file.loaded
       THEN Exit1("Error loading config file") /\ UNCHANGED cfg
       ELSE IF command.strategy.some
       THEN IF ~file.config.has_strategies
            THEN Exit1("No strategies defined in config file") /\ UNCHANGED cfg
            ELSE LET found == Find(file.config.strategies, command.strategy.value, 1)
                 IN  IF found = 0
                     THEN Exit1("Strategy not found in config") /\ UNCHANGED cfg
                     ELSE IF ~StrategyValidate(file.config.strategies[found]).ok
                     THEN Exit1("Error validating strategy") /\ UNCHANGED cfg
                     ELSE /\ cfg' = ToConfig(file.config.strategies[found])
                          /\ pc' = "run_calculation"
                          /\ UNCHANGED << stderr, exit_code >>
       ELSE /\ cfg' = file.config
            /\ pc' = "run_calculation"
            /\ UNCHANGED << stderr, exit_code >>
    /\ UNCHANGED << engine_vars, command, file, levels, loop_i, stdout >>

\* a run_calculation that goes on to the engine without calling validate
run_calculation_NoValidate ==
    /\ pc = "run_calculation"
    /\ LET grid_type == parse_grid_type(cfg.base.grid_type)
           position_mode == parse_position_mode(cfg.position.mode)
           multiplier == UnwrapOr(cfg.position.multiplier, F(1))
       IN  IF ~grid_type.ok \/ ~position_mode.ok
           THEN /\ Exit1("Error running calculation")
                /\ UNCHANGED << calculator, args, levels, stdout >>
           ELSE /\ calculator' = New(cfg.base.initial_price, grid_type.value,
                                     position_mode.value, cfg.position.base_size,
                                     multiplier)
                /\ args' = << cfg.base.initial_price, grid_type.value,
                              position_mode.value, cfg.position.base_size, multiplier >>
                /\ stdout' = << Header(cfg.base.initial_price, cfg.base.grid_type,
                                       cfg.position.mode, cfg.position.base_size,
                                       cfg.position.multiplier) >>
                /\ levels' = cfg.grid.levels
                /\ pc' = "print_calculation_results"
                /\ UNCHANGED << stderr, exit_code >>
    /\ UNCHANGED << percents, returned, steps_before_reset, command, file, cfg, loop_i >>


\* run_calculation, up to the call of print_calculation_results; an Err makes
\* main print "Error running calculation" and exit with 1
run_calculation ==
    /\ pc = "run_calculation"
    /\ LET grid_type == parse_grid_type(cfg.base.grid_type)
           position_mode == parse_position_mode(cfg.position.mode)
           multiplier == UnwrapOr(cfg.position.multiplier, F(1))
       IN  IF ~ConfigValidate(cfg).ok \/ ~grid_type.ok \/ ~position_mode.ok
           THEN /\ Exit1("Error running calculation")
                /\ UNCHANGED << calculator, args, levels, stdout >>
           ELSE /\ calculator' = New(cfg.base.initial_price, grid_type.value,
                                     position_mode.value, cfg.position.base_size,
                                     multiplier)
                /\ args' = << cfg.base.initial_price, grid_type.value,
                              position_mode.value, cfg.position.base_size, multiplier >>
                /\ stdout' = << Header(cfg.base.initial_price, cfg.base.grid_type,
                                       cfg.position.mode, cfg.position.base_size,
                                       cfg.position.multiplier) >>
                /\ levels' = cfg.grid.levels
                /\ pc' = "print_calculation_results"
                /\ UNCHANGED << stderr, exit_code >>
    /\ UNCHANGED << percents, returned, steps_before_reset, command, file, cfg, loop_i >>

\* print_calculation_results: one iteration of the loop over the levels
print_calculation_results ==
    /\ pc = "print_calculation_results"
    /\ loop_i < Len(levels)
    /\ LET level == levels[loop_i + 1]
           out == CalculateGrid(calculator, level)
       IN  /\ calculator' = out.calc
           /\ returned' = out.result
           /\ percents' = Append(percents, level)
           /\ stdout' = Append(stdout, Row(loop_i, level, out.result))
    /\ loop_i' = loop_i + 1
    /\ UNCHANGED << args, steps_before_reset, pc, command, file, cfg, levels,
                    stderr, exit_code >>

\* the loop is over: print_calculation_results, run_calculation and main return
main_return ==
    /\ pc = "print_calculation_results"
    /\ loop_i = Len(levels)
    /\ pc' = "exit"
    /\ exit_code' = 0
    /\ UNCHANGED << engine_vars, command, file, cfg, levels, loop_i, stdout, stderr >>

\* Commands::ListStrategies
main_list_strategies ==
    /\ pc = "main"
    /\ command.cmd = "ListStrategies"
    /\ IF ~file.loaded
       THEN Exit1("Error loading config file") /\ UNCHANGED stdout
       ELSE /\ stdout' =
                  << [ grid_type |-> file.config.base.grid_type,
                       mode      |-> file.config.position.mode,
                       levels    |-> file.config.grid.levels ] >>
                  \o [ k \in 1..Len(file.config.strategies) |->
                        LET strat == file.config.strategies[k]
                        IN  [ name       |-> strat.name,
                              grid_type  |-> strat.grid_type,
                              mode       |-> strat.position_mode,
                              levels     |-> strat.levels,
                              multiplier |-> IF strat.multiplier.some
                                             THEN Some(Fmt2(strat.multiplier.value))
                                             ELSE None ] ]
            /\ pc' = "exit"
            /\ exit_code' = 0
            /\ UNCHANGED stderr
    /\ UNCHANGED << engine_vars, command, file, cfg, levels, loop_i >>

CliNext ==
    \/ main_calculate
    \/ main_from_config
    \/ run_calculation
    \/ print_calculation_results
    \/ main_return
    \/ main_list_strategies

CliSpec == CliInit /\ [][CliNext]_vars

(***************************************************************************)
(* Helpers of the properties of the engine.                                *)
(***************************************************************************)
\* the sum of position_size over the first n history entries, added in call order
RECURSIVE SumPositionSize(_, _)
SumPositionSize(h, n) ==
    IF n = 0 THEN Zero ELSE FAdd(SumPositionSize(h, n - 1), h[n].position_size)

\* the sum of grid_price * position_size over the first n entries, in call order
RECURSIVE SumCost(_, _)
SumCost(h, n) ==
    IF n = 0 THEN Zero
    ELSE FAdd(SumCost(h, n - 1), FMul(h[n].grid_price, h[n].position_size))

\* 1 - level/100
Drop(level) == FSub(One, FDiv(level, Hundred))

\* a freshly constructed engine stepped through the first n of the levels ps
RECURSIVE Run(_, _, _)
Run(c, ps, n) ==
    IF n = 0 THEN c ELSE CalculateGrid(Run(c, ps, n - 1), ps[n]).calc

Fresh == New(args[1], args[2], args[3], args[4], args[5])

History == get_history(calculator)

\* the last call on the engine was calculate_grid
Stepped == returned # NoResult

(***************************************************************************)
(* C1: after any sequence of calculate_grid and reset calls,               *)
(* current_position equals the sum of position_size over the entries       *)
(* currently in the history.                                               *)
(***************************************************************************)
C1_PositionIsSumOfSizes ==
    calculator.current_position = SumPositionSize(History, Len(History))

\* a second session, after a reset of a stepped engine, with a non-zero position
C1_Witness ==
    /\ steps_before_reset >= 2
    /\ Len(History) >= 2
    /\ calculator.position_mode # "Fixed"
    /\ calculator.current_position # Zero

(***************************************************************************)
(* C2: after any sequence of calculate_grid and reset calls, total_cost    *)
(* equals the sum of grid_price * position_size over the entries currently *)
(* in the history.                                                         *)
(***************************************************************************)
C2_CostIsSumOfCosts ==
    calculator.total_cost = SumCost(History, Len(History))

C2_Witness ==
    /\ steps_before_reset >= 2
    /\ Len(History) >= 2
    /\ calculator.grid_type = "Average"
    /\ calculator.total_cost # Zero
    /\ History[1].grid_price # History[2].grid_price

(***************************************************************************)
(* C3: after any step that leaves current_position > 0, average_price of   *)
(* the engine and of the returned result equals total_cost divided by      *)
(* current_position, both taken after the step.                            *)
(***************************************************************************)
C3_AverageIsCostOverPosition ==
    (Stepped /\ FGt(calculator.current_position, Zero)) =>
        /\ calculator.average_price =
                FDiv(calculator.total_cost, calculator.current_position)
        /\ returned.average_price =
                FDiv(returned.total_cost, returned.total_position)

\* a step at a new price moved the average
C3_Witness ==
    /\ Stepped
    /\ Len(History) >= 2
    /\ FGt(calculator.current_position, Zero)
    /\ calculator.average_price # History[1].average_price
    /\ calculator.average_price # calculator.initial_price

(***************************************************************************)
(* C4: under the Fixed grid type, the grid_price of every step equals      *)
(* initial_price * (1 - level/100), whatever steps and resets came before  *)
(* and whatever the position mode is.                                      *)
(***************************************************************************)
C4_FixedGridPrice ==
    calculator.grid_type = "Fixed" =>
        /\ \A i \in 1..Len(History) :
                History[i].grid_price = FMul(calculator.initial_price, Drop(percents[i]))
        /\ Stepped =>
                returned.grid_price =
                    FMul(calculator.initial_price, Drop(percents[Len(percents)]))

\* a later step of a second session, taken after the average has moved
C4_Witness ==
    /\ calculator.grid_type = "Fixed"
    /\ steps_before_reset >= 1
    /\ Len(History) >= 2
    /\ calculator.position_mode # "Fixed"
    /\ History[1].average_price # calculator.initial_price
    /\ History[2].grid_price # Zero

(***************************************************************************)
(* C5: under the Average grid type, the grid_price of every step equals    *)
(* the average_price before that step times (1 - level/100): the first     *)
(* step of a session uses initial_price, each later step the average_price *)
(* recorded in the previous history entry.                                 *)
(***************************************************************************)
C5_AverageGridPrice ==
    calculator.grid_type = "Average" =>
        \A i \in 1..Len(History) :
            History[i].grid_price =
                FMul(IF i = 1 THEN calculator.initial_price
                              ELSE History[i - 1].average_price,
                     Drop(percents[i]))

\* a second step whose price is neither the original price times the drop nor
\* the average this step produced times the drop
C5_Witness ==
    /\ calculator.grid_type = "Average"
    /\ Len(History) >= 2
    /\ History[2].grid_price # FMul(calculator.initial_price, Drop(percents[2]))
    /\ History[2].grid_price # FMul(History[2].average_price, Drop(percents[2]))
    /\ History[2].grid_price # Zero

(***************************************************************************)
(* C6 as stated: under IncrementMultiple the first step of a session has   *)
(* size base_size and every step i >= 2 has the size of step i-1           *)
(* multiplied by the multiplier.                                           *)
(***************************************************************************)
C6_Original ==
    calculator.position_mode = "IncrementMultiple" =>
        \A i \in 1..Len(History) :
            History[i].position_size =
                IF i = 1 THEN calculator.base_size
                ELSE FMul(History[i - 1].position_size, calculator.multiplier)

(***************************************************************************)
(* C6 amended: under IncrementMultiple the first step of a session has     *)
(* size base_size, and every step i >= 2 has the size of step i-1          *)
(* multiplied by the multiplier when the size of step i-1 is not zero, and *)
(* base_size when the size of step i-1 is exactly zero.                    *)
(***************************************************************************)
C6_IncrementMultipleSize ==
    calculator.position_mode = "IncrementMultiple" =>
        \A i \in 1..Len(History) :
            History[i].position_size =
                IF i = 1 \/ History[i - 1].position_size = Zero
                THEN calculator.base_size
                ELSE FMul(History[i - 1].position_size, calculator.multiplier)

\* a geometric second step followed by a third step that is seeded again
C6_Witness ==
    /\ calculator.position_mode = "IncrementMultiple"
    /\ Len(History) >= 3
    /\ History[1].position_size # Zero
    /\ History[2].position_size = FMul(History[1].position_size, calculator.multiplier)
    /\ History[2].position_size = Zero
    /\ History[3].position_size = calculator.base_size

(***************************************************************************)
(* C7 as stated: under CurrentMultiple the position before a step is zero  *)
(* on the first step of a session only; the first step has size base_size  *)
(* and every other step has size (position before the step) * multiplier   *)
(* and leaves total_position = (position before the step) * (1 +           *)
(* multiplier).                                                            *)
(***************************************************************************)
C7_Original ==
    calculator.position_mode = "CurrentMultiple" =>
        \A i \in 1..Len(History) :
            IF i = 1
            THEN History[i].position_size = calculator.base_size
            ELSE /\ History[i - 1].total_position # Zero
                 /\ History[i].position_size =
                        FMul(History[i - 1].total_position, calculator.multiplier)
                 /\ History[i].total_position =
                        FMul(History[i - 1].total_position, FAdd(One, calculator.multiplier))

(***************************************************************************)
(* C7 amended: under CurrentMultiple the size of a step is base_size       *)
(* whenever the position before the step is exactly zero, which is the     *)
(* case on the first step of a session and on every later step that finds  *)
(* the accumulated position at zero; on every other step it is (position   *)
(* before the step) * multiplier, and total_position after the step is the *)
(* position before it plus that size, (position before) * (1 + multiplier) *)
(* in exact arithmetic.                                                    *)
(***************************************************************************)
C7_CurrentMultipleSize ==
    calculator.position_mode = "CurrentMultiple" =>
        \A i \in 1..Len(History) :
            LET before == IF i = 1 THEN Zero ELSE History[i - 1].total_position
            IN  IF before = Zero
                THEN History[i].position_size = calculator.base_size
                ELSE /\ History[i].position_size = FMul(before, calculator.multiplier)
                     /\ History[i].total_position =
                            FAdd(before, FMul(before, calculator.multiplier))
                     /\ History[i].total_position =
                            FMul(before, FAdd(One, calculator.multiplier))

\* a scaled second step that brings the position back to zero, then a third
\* step that is seeded again
C7_Witness ==
    /\ calculator.position_mode = "CurrentMultiple"
    /\ Len(History) >= 3
    /\ History[1].total_position # Zero
    /\ History[2].position_size = FMul(History[1].total_position, calculator.multiplier)
    /\ History[2].total_position = Zero
    /\ History[3].position_size = calculator.base_size

(***************************************************************************)
(* C8: reset sets current_position, total_cost and last_increment to 0,    *)
(* average_price to initial_price and the history to empty, and leaves     *)
(* initial_price, both policies, base_size and multiplier as constructed;  *)
(* the steps taken after a reset return what a freshly constructed engine  *)
(* with the same five arguments returns for the same levels.               *)
(***************************************************************************)
C8_ResetEqualsFresh ==
    steps_before_reset >= 0 =>
        /\ calculator.initial_price = args[1]
        /\ calculator.grid_type = args[2]
        /\ calculator.position_mode = args[3]
        /\ calculator.base_size = args[4]
        /\ calculator.multiplier = args[5]
        /\ percents = << >> =>
                /\ calculator.current_position = Zero
                /\ calculator.total_cost = Zero
                /\ calculator.last_increment = Zero
                /\ calculator.average_price = args[1]
                /\ History = << >>
        /\ IF percents = << >>
           THEN calculator = Fresh /\ ~Stepped
           ELSE LET before == Run(Fresh, percents, Len(percents) - 1)
                    out == CalculateGrid(before, percents[Len(percents)])
                IN  calculator = out.calc /\ returned = out.result

\* two steps after the reset of an engine that had been stepped twice
C8_Witness ==
    /\ steps_before_reset >= 2
    /\ Len(percents) >= 2
    /\ Stepped
    /\ calculator.position_mode = "IncrementMultiple"
    /\ calculator.grid_type = "Average"
    /\ History[2].position_size # History[1].position_size
    /\ History[2].average_price # History[1].average_price

(***************************************************************************)
(* Helpers of the properties of the program.                               *)
(***************************************************************************)
\* a "multiple" position mode without a multiplier
MissingMultiplier(mode, multiplier) ==
    mode \in {"current-multiple", "increment-multiple"} /\ multiplier = None

\* the from-config command found the parameter set it was asked to run
Selects ==
    /\ command.cmd = "FromConfig"
    /\ file.loaded
    /\ command.strategy.some =>
            /\ file.config.has_strategies
            /\ Find(file.config.strategies, command.strategy.value, 1) # 0

\* that parameter set, as a Config
Selected ==
    IF command.strategy.some
    THEN ToConfig(file.config.strategies[
                    Find(file.config.strategies, command.strategy.value, 1)])
    ELSE file.config

(***************************************************************************)
(* C9: a main configuration or strategy whose position mode is             *)
(* current-multiple or increment-multiple and that has no multiplier is    *)
(* rejected by validation; when the from-config command selects it, no     *)
(* GridCalculator is ever constructed and the process exits with an error, *)
(* so the default multiplier 1.0 reaches an engine only under the fixed    *)
(* position mode.                                                          *)
(***************************************************************************)
C9_MissingMultiplierRejected ==
    /\ (command.cmd \in {"FromConfig", "ListStrategies"} /\ file.loaded) =>
            /\ MissingMultiplier(file.config.position.mode,
                                 file.config.position.multiplier)
                    => ~ConfigValidate(file.config).ok
            /\ \A k \in 1..Len(file.config.strategies) :
                    LET strat == file.config.strategies[k]
                    IN  MissingMultiplier(strat.position_mode, strat.multiplier) =>
                            /\ ~StrategyValidate(strat).ok
                            /\ ~ConfigValidate(ToConfig(strat)).ok
    /\ (Selects /\ MissingMultiplier(Selected.position.mode,
                                     Selected.position.multiplier)) =>
            /\ calculator = NoCalculator
            /\ stdout = << >>
            /\ pc = "exit" => exit_code = 1 /\ stderr # ""
    /\ (command.cmd = "FromConfig" /\ calculator # NoCalculator) =>
            /\ ~MissingMultiplier(cfg.position.mode, cfg.position.multiplier)
            /\ cfg.position.multiplier = None => calculator.position_mode = "Fixed"

\* the main configuration lacks nothing but the multiplier, as in
\* test_missing_multiplier, and the run has ended
C9_Witness ==
    /\ command.cmd = "FromConfig"
    /\ ~command.strategy.some
    /\ pc = "exit"
    /\ cfg # NoConfig
    /\ cfg.base.grid_type = "fixed"
    /\ cfg.base.initial_price = F(100)
    /\ cfg.position.mode = "current-multiple"
    /\ cfg.position.multiplier = None
    /\ cfg.grid.levels = << F(10), F(50) >>
    /\ exit_code = 1
    /\ calculator = NoCalculator

(***************************************************************************)
(* C10: every engine constructed from a loaded configuration has an        *)
(* initial_price greater than 0: a main configuration or strategy whose    *)
(* initial_price is zero or negative is rejected by validation and never   *)
(* reaches GridCalculator::new.                                            *)
(***************************************************************************)
C10_PositiveInitialPrice ==
    (command.cmd = "FromConfig" /\ calculator # NoCalculator) =>
        FGt(calculator.initial_price, Zero)


\* every level of ls is strictly between 0 and 100
StrictlyInside(ls) ==
    \A k \in 1..Len(ls) : FGt(ls[k], Zero) /\ FLt(ls[k], Hundred)

(***************************************************************************)
(* C11: Config::validate and Strategy::validate accept a configuration     *)
(* only if its level list is not empty and every level is strictly greater *)
(* than 0 and strictly less than 100; so every level the from-config       *)
(* command passes to calculate_grid lies strictly between 0 and 100.       *)
(***************************************************************************)
C11_LevelsStrictlyInRange ==
    /\ (command.cmd \in {"FromConfig", "ListStrategies"} /\ file.loaded) =>
            /\ ConfigValidate(file.config).ok =>
                    /\ file.config.grid.levels # << >>
                    /\ StrictlyInside(file.config.grid.levels)
            /\ \A k \in 1..Len(file.config.strategies) :
                    StrategyValidate(file.config.strategies[k]).ok =>
                        /\ file.config.strategies[k].levels # << >>
                        /\ StrictlyInside(file.config.strategies[k].levels)
    /\ command.cmd = "FromConfig" =>
            /\ StrictlyInside(percents)
            /\ calculator # NoCalculator =>
                    levels # << >> /\ StrictlyInside(levels)

\* the strategy that was asked for has run, and the file holds a second one
\* that is rejected for nothing but its levels 0 and 100
C11_Witness ==
    /\ command.cmd = "FromConfig"
    /\ command.strategy = Some("a")
    /\ pc = "exit"
    /\ exit_code = 0
    /\ percents = << F(10) >>
    /\ Len(file.config.strategies) = 2
    /\ file.config.strategies[2].levels = << F(0), F(100) >>
    /\ file.config.strategies[2].grid_type = "fixed"
    /\ file.config.strategies[2].position_mode = "fixed"
    /\ ~StrategyValidate(file.config.strategies[2]).ok


\* nothing of the computation has happened: no engine, no step, no output
NothingComputed ==
    calculator = NoCalculator /\ percents = << >> /\ stdout = << >>

(***************************************************************************)
(* C12: validation is all-or-nothing and comes before any computation: in  *)
(* a from-config run an engine is built, a step is made or a line is       *)
(* printed only when the validation of the chosen parameter set has        *)
(* succeeded, and a parameter set with one invalid level at any place of   *)
(* its list yields no step and no row at all.                              *)
(***************************************************************************)
C12_ValidationBeforeComputation ==
    /\ (command.cmd = "FromConfig" /\ ~NothingComputed) =>
            /\ Selects
            /\ cfg = Selected
            /\ ConfigValidate(Selected).ok
            /\ command.strategy.some =>
                    StrategyValidate(file.config.strategies[
                        Find(file.config.strategies, command.strategy.value, 1)]).ok
    /\ (Selects /\ ~StrictlyInside(Selected.grid.levels)) =>
            /\ NothingComputed
            /\ pc = "exit" => exit_code = 1

\* the main configuration is valid up to its second level, which is 0, and
\* the run has ended without a step
C12_Witness ==
    /\ command.cmd = "FromConfig"
    /\ ~command.strategy.some
    /\ pc = "exit"
    /\ cfg # NoConfig
    /\ cfg.base.grid_type = "average"
    /\ cfg.position.mode = "fixed"
    /\ cfg.grid.levels = << F(10), F(0) >>
    /\ stderr = "Error running calculation"
    /\ exit_code = 1
    /\ NothingComputed


\* the failures of a run: the file does not load, the strategy that was asked
\* for is not in it, the chosen parameter set does not validate, or no token
\* of the level list of the calculate command is a number
Fails ==
    CASE command.cmd = "Calculate" ->
            \A k \in 1..Len(command.levels) : ~ParseLevel(command.levels[k]).some
      [] command.cmd = "FromConfig" ->
            \/ ~file.loaded
            \/ ~Selects
            \/ /\ command.strategy.some
               /\ ~StrategyValidate(file.config.strategies[
                        Find(file.config.strategies, command.strategy.value, 1)]).ok
            \/ ~ConfigValidate(Selected).ok
      [] OTHER -> ~file.loaded

(***************************************************************************)
(* C13: the process exits with code 0 when the command succeeds and with a *)
(* non-zero code when the configuration file does not load, the strategy   *)
(* name is unknown, validation fails, or the level list of the calculate   *)
(* command is empty or has no parseable token; in each of the failing      *)
(* cases no engine has been stepped before the exit.                       *)
(***************************************************************************)
C13_ExitCodes ==
    pc = "exit" =>
        /\ ~Fails => exit_code = 0 /\ stderr = ""
        /\ Fails  => /\ exit_code # 0
                     /\ stderr # ""
                     /\ percents = << >>
                     /\ returned = NoResult
                     /\ calculator = NoCalculator

\* the strategy "b" is asked of a file whose only strategy is "a"
C13_Witness ==
    /\ command.cmd = "FromConfig"
    /\ command.strategy = Some("b")
    /\ file.loaded
    /\ file.config.has_strategies
    /\ Len(file.config.strategies) = 1
    /\ file.config.strategies[1].name = "a"
    /\ pc = "exit"
    /\ stderr = "Strategy not found in config"
    /\ exit_code = 1
    /\ percents = << >>


(***************************************************************************)
(* C14: the presenter calls calculate_grid exactly once for each level of  *)
(* its list, in the order of the list, on one engine: after n levels the   *)
(* history has n entries more, the k-th of them is the result of stepping  *)
(* the k-th level on the state the first k-1 levels left, and it is        *)
(* printed as the row with the index k, counted from 1.                    *)
(***************************************************************************)
C14_OneStepPerLevelInOrder ==
    (pc \in {"print_calculation_results", "exit"} /\ calculator # NoCalculator) =>
        /\ Len(History) = loop_i
        /\ Len(stdout) = 1 + loop_i
        /\ percents = SubSeq(levels, 1, loop_i)
        /\ pc = "exit" => loop_i = Len(levels)
        /\ calculator = Run(Fresh, levels, loop_i)
        /\ \A k \in 1..loop_i :
              LET before == Run(Fresh, levels, k - 1)
                  entry == CalculateGrid(before, levels[k]).result
              IN  /\ History[k] = entry
                  /\ stdout[1 + k].grid = k
                  /\ stdout[1 + k].level = Fmt2(levels[k])
                  /\ stdout[1 + k].grid_price = Fmt2(entry.grid_price)
                  /\ stdout[1 + k].position_size = Fmt2(entry.position_size)
                  /\ stdout[1 + k].total_position = Fmt2(entry.total_position)
                  /\ stdout[1 + k].average_price = Fmt2(entry.average_price)

\* two different levels have been presented on an engine whose grid prices
\* follow the average, so that the second row depends on the first
C14_Witness ==
    /\ pc = "exit"
    /\ exit_code = 0
    /\ calculator # NoCalculator
    /\ calculator.grid_type = "Average"
    /\ Len(levels) >= 2
    /\ loop_i = Len(levels)
    /\ levels[1] # levels[2]
    /\ History[2].grid_price # History[1].grid_price
    /\ stdout[3].grid = 2


(***************************************************************************)
(* C15: the history is append-only between resets: every call of           *)
(* calculate_grid appends exactly one entry, equal to the result it        *)
(* returns, at the end of the history and leaves every earlier entry as it *)
(* was, nothing but reset removes entries, and the length of the history   *)
(* is the number of calculate_grid calls since the construction or the     *)
(* last reset.                                                             *)
(***************************************************************************)
C15_HistoryAppendOnly ==
    [][ /\ Len(History) = Len(percents)
        /\ Len(History') = Len(percents')
        /\ IF Len(percents') = Len(percents) + 1
           THEN /\ returned' # NoResult
                /\ History' = Append(History, returned')
           ELSE /\ percents' = << >>
                /\ History' = << >> ]_vars

\* after a reset, three steps have been made and the last result returned is
\* the last of three entries
C15_Witness ==
    /\ steps_before_reset >= 1
    /\ Len(percents) = 3
    /\ Len(History) = 3
    /\ returned = History[3]
    /\ History[1] # History[2]
    /\ History[2] # History[3]


\* the steps of the session that left a current_position greater than 0
PositiveSteps ==
    { k \in 1..Len(History) : FGt(History[k].total_position, Zero) }

\* the last of them
LastPositiveStep ==
    CHOOSE k \in PositiveSteps : \A j \in PositiveSteps : j <= k

\* C16 as it is written: the average price is the initial price whenever the
\* current position is 0
C16_Original ==
    calculator.current_position = Zero =>
        calculator.average_price = calculator.initial_price

(***************************************************************************)
(* C16: in every reachable state with current_position equal to 0, the     *)
(* average_price is the initial_price when no step of the session has left *)
(* a current_position greater than 0, and is otherwise the quotient        *)
(* total_cost / current_position of the last step that left a              *)
(* current_position greater than 0: a step that brings the position back   *)
(* to 0 leaves the average where it was.                                   *)
(***************************************************************************)
C16_AverageAtZeroPosition ==
    calculator.current_position = Zero =>
        calculator.average_price =
            IF PositiveSteps = {}
            THEN calculator.initial_price
            ELSE FDiv(History[LastPositiveStep].total_cost,
                      History[LastPositiveStep].total_position)

\* a position that was bought has been cancelled by a later step, and the
\* average price is still the one of the position that was held
C16_Witness ==
    /\ calculator.current_position = Zero
    /\ PositiveSteps # {}
    /\ LastPositiveStep < Len(History)
    /\ calculator.average_price # calculator.initial_price


(***************************************************************************)
(* C17: every entry of the history is a running snapshot: the              *)
(* total_position of entry i is the sum of the position_size of the        *)
(* entries up to and including i, its total_cost is the sum of             *)
(* grid_price * position_size over the same entries, and its average_price *)
(* is the average_price the engine had immediately after step i.           *)
(***************************************************************************)
C17_EntriesAreRunningSnapshots ==
    \A k \in 1..Len(History) :
        /\ History[k].total_position = SumPositionSize(History, k)
        /\ History[k].total_cost = SumCost(History, k)
        /\ History[k].average_price = Run(Fresh, percents, k).average_price

\* three steps with sizes other than 0, and totals and averages that moved
\* from entry to entry
C17_Witness ==
    /\ Len(History) = 3
    /\ \A k \in 1..3 : History[k].position_size # Zero
    /\ History[2].total_position # History[1].total_position
    /\ History[3].total_position # History[2].total_position
    /\ History[3].total_cost # History[2].total_cost
    /\ History[2].average_price # History[1].average_price
    /\ History[3].average_price # History[2].average_price
    /\ History[3].average_price = calculator.average_price


\* every number of the engine c and of the result r is finite
AllFinite(c, r) ==
    /\ IsFinite(c.current_position)
    /\ IsFinite(c.total_cost)
    /\ IsFinite(c.average_price)
    /\ IsFinite(c.last_increment)
    /\ IsFinite(r.grid_price)
    /\ IsFinite(r.position_size)
    /\ IsFinite(r.total_position)
    /\ IsFinite(r.average_price)
    /\ IsFinite(r.total_cost)

(***************************************************************************)
(* C18: calculate_grid is enabled in every reachable state, for every      *)
(* level and every choice of the parameters, a base_size or multiplier     *)
(* that is zero or negative included; it never ends in an error, and the   *)
(* division total_cost / current_position is made only when the            *)
(* current_position after the fold is greater than 0 (otherwise the        *)
(* average_price stays as it was).  The first two conjuncts are the guard  *)
(* of the action calculate_grid, which has no other below the cap on the   *)
(* number of steps.                                                        *)
(***************************************************************************)
C18_StepIsTotal ==
    /\ pc = "library"
    /\ calculator # NoCalculator
    /\ Len(History) < MaxSteps =>
        \A level \in Levels :
            LET out == CalculateGrid(calculator, level)
            IN  /\ AllFinite(out.calc, out.result)
                /\ Len(out.calc.grid_history) = Len(History) + 1
                /\ ~FGt(out.calc.current_position, Zero) =>
                        out.calc.average_price = calculator.average_price

\* two steps of size 0 have been made: the position after each of them was 0,
\* the divisor the gate keeps away from the division
C18_Witness ==
    /\ calculator.base_size = Zero
    /\ Len(History) = 2
    /\ History[1].total_position = Zero
    /\ History[2].total_position = Zero
    /\ returned = History[2]
    /\ IsFinite(returned.average_price)


\* the price the next grid price is a fraction of
ReferencePrice(c) ==
    IF c.grid_type = "Fixed" THEN c.initial_price ELSE c.average_price

\* the result of stepping the level a directly on the engine c
SteppedFirst(c, a) == CalculateGrid(c, a).result

\* the result of stepping the level a on the engine c after the level b
SteppedSecond(c, b, a) == CalculateGrid(CalculateGrid(c, b).calc, a).result

\* the engine c after the level a and then the level b
AfterBoth(c, a, b) == CalculateGrid(CalculateGrid(c, a).calc, b).calc

\* C19 as it is written: two different levels stepped in the opposite order
\* give different results and a different final engine state
C19_Original ==
    Len(History) < MaxSteps =>
        \A a, b \in Levels :
            a # b =>
                /\ SteppedFirst(calculator, a) # SteppedSecond(calculator, b, a)
                /\ AfterBoth(calculator, a, b) # AfterBoth(calculator, b, a)

(***************************************************************************)
(* C19: calculate_grid calls are not commutative in general.  For two      *)
(* different levels stepped from the same state in either order: when the  *)
(* position_size of the next step is not 0, the result returned for a      *)
(* level stepped second differs from the result returned for the same      *)
(* level stepped first; and when the reference price (initial_price under  *)
(* Fixed, the current average_price under Average) is not 0, the two       *)
(* orders leave different final engine states.  With a next position_size  *)
(* of 0 the result of a level can be the same in both orders, and with a   *)
(* reference price of 0 the two orders can leave the same state.           *)
(***************************************************************************)
C19_OrderMatters ==
    Len(History) < MaxSteps =>
        \A a, b \in Levels :
            a # b =>
                /\ PositionSize(calculator) # Zero =>
                        SteppedFirst(calculator, a) # SteppedSecond(calculator, b, a)
                /\ ReferencePrice(calculator) # Zero =>
                        AfterBoth(calculator, a, b) # AfterBoth(calculator, b, a)


\* two different levels have been stepped on an engine with a base_size and
\* an initial_price other than 0, and the opposite order would have returned
\* another result for the second level and left another engine
C19_Witness ==
    /\ Len(History) = 2
    /\ percents[1] # percents[2]
    /\ PositionSize(Fresh) # Zero
    /\ ReferencePrice(Fresh) # Zero
    /\ returned = SteppedSecond(Fresh, percents[1], percents[2])
    /\ returned # SteppedFirst(Fresh, percents[2])
    /\ calculator = AfterBoth(Fresh, percents[1], percents[2])
    /\ calculator # AfterBoth(Fresh, percents[2], percents[1])


(***************************************************************************)
(* C20: a strategy is validated under the same rules as a main             *)
(* configuration: Strategy::validate accepts a strategy exactly when       *)
(* Config::validate accepts its to_config, and to_config carries the       *)
(* initial_price, the grid_type, the levels in their order, the position   *)
(* mode, the base_size and the multiplier over unchanged; so a strategy    *)
(* that passed its own validation never fails the validation inside        *)
(* run_calculation.                                                        *)
(***************************************************************************)
C20_StrategyValidatedAsConfig ==
    /\ (command.cmd \in {"FromConfig", "ListStrategies"} /\ file.loaded) =>
            \A k \in 1..Len(file.config.strategies) :
                LET strat == file.config.strategies[k]
                    config == ToConfig(strat)
                IN  /\ StrategyValidate(strat).ok <=> ConfigValidate(config).ok
                    /\ config.base.initial_price = strat.initial_price
                    /\ config.base.grid_type = strat.grid_type
                    /\ config.grid.levels = strat.levels
                    /\ config.position.mode = strat.position_mode
                    /\ config.position.base_size = strat.base_size
                    /\ config.position.multiplier = strat.multiplier
    /\ (command.cmd = "FromConfig" /\ command.strategy.some /\ cfg # NoConfig) =>
            /\ ConfigValidate(cfg).ok
            /\ stderr # "Error running calculation"
            /\ pc = "exit" => exit_code = 0

\* a strategy with a multiple mode and a multiplier has passed both
\* validations and has been run to the end
C20_Witness ==
    /\ command.cmd = "FromConfig"
    /\ command.strategy.some
    /\ Selects
    /\ cfg = Selected
    /\ cfg.position.mode \in {"current-multiple", "increment-multiple"}
    /\ cfg.position.multiplier = Some(F(2))
    /\ Len(cfg.grid.levels) >= 1
    /\ pc = "exit"
    /\ exit_code = 0
    /\ Len(percents) = Len(cfg.grid.levels)


\* the engine has an initial_price, a base_size and a multiplier greater than
\* 0, and every level stepped in the session lies strictly between 0 and 100
AveragingDown ==
    /\ FGt(calculator.initial_price, Zero)
    /\ FGt(calculator.base_size, Zero)
    /\ FGt(calculator.multiplier, Zero)
    /\ StrictlyInside(percents)

\* the average_price the step k of the session found
AverageBefore(k) ==
    IF k = 1 THEN calculator.initial_price ELSE History[k - 1].average_price

(***************************************************************************)
(* C21: averaging down.  For an engine with initial_price, base_size and   *)
(* multiplier greater than 0 and every stepped level strictly between 0    *)
(* and 100, under either grid type and any position mode: the grid_price   *)
(* of every step is strictly between 0 and initial_price, the              *)
(* average_price after every step is strictly between 0 and initial_price, *)
(* and under the Average grid type the grid_price is below the             *)
(* average_price the step found and the average_price strictly decreases   *)
(* at every step.  This is a statement of exact arithmetic: the rounding   *)
(* of f64, under which 1.0 - level / 100.0 is 1.0 for a level as small as  *)
(* 1e-17, is not part of the rational numbers of this module.              *)
(***************************************************************************)
C21_AveragingDown ==
    AveragingDown =>
        /\ \A k \in 1..Len(History) :
              /\ FGt(History[k].grid_price, Zero)
              /\ FLt(History[k].grid_price, calculator.initial_price)
              /\ FGt(History[k].position_size, Zero)
              /\ FGt(History[k].average_price, Zero)
              /\ FLt(History[k].average_price, calculator.initial_price)
              /\ FLe(AverageBefore(k), calculator.initial_price)
              /\ calculator.grid_type = "Average" =>
                    /\ FLt(History[k].grid_price, AverageBefore(k))
                    /\ FLt(History[k].average_price, AverageBefore(k))
        /\ Len(History) >= 1 =>
              calculator.average_price = History[Len(History)].average_price

\* three steps under the Average grid type and a multiple position mode, with
\* two different levels among them
C21_Witness ==
    /\ AveragingDown
    /\ calculator.grid_type = "Average"
    /\ calculator.position_mode # "Fixed"
    /\ Len(History) = 3
    /\ percents[1] # percents[2]
    /\ FLt(History[3].average_price, History[2].average_price)
    /\ FLt(History[2].average_price, History[1].average_price)
    /\ FLt(History[1].average_price, calculator.initial_price)


\* the places of the level list of the calculate command whose token parses
ParsedPlaces ==
    { k \in 1..Len(command.levels) : ParseLevel(command.levels[k]).some }

\* the place of the j-th token that parses
NthParsed(j) ==
    CHOOSE k \in ParsedPlaces :
        Cardinality({ i \in ParsedPlaces : i <= k }) = j

(***************************************************************************)
(* C22: ad-hoc level parsing.  On the calculate command the tokens of the  *)
(* level list that do not parse as a number are dropped without an error,  *)
(* the levels that remain are stepped in their original relative order     *)
(* and shown with indices counted from 1 without gaps, the run fails only  *)
(* when no token parses, and a parsed level is stepped whether or not it   *)
(* lies between 0 and 100.                                                 *)
(***************************************************************************)
C22_AdHocLevelParsing ==
    command.cmd = "Calculate" =>
        /\ (pc = "exit" /\ ParsedPlaces = {}) =>
                exit_code = 1 /\ calculator = NoCalculator /\ percents = << >>
        /\ (pc = "exit" /\ ParsedPlaces # {}) =>
                /\ exit_code = 0
                /\ stderr = ""
                /\ Len(percents) = Cardinality(ParsedPlaces)
        /\ calculator # NoCalculator =>
                /\ Len(levels) = Cardinality(ParsedPlaces)
                /\ \A j \in 1..Len(levels) :
                        levels[j] = ParseLevel(command.levels[NthParsed(j)]).value
                /\ \A j \in 1..Len(percents) :
                        /\ percents[j] = levels[j]
                        /\ stdout[1 + j].grid = j
                        /\ stdout[1 + j].level = Fmt2(levels[j])

\* the list "abc,200": the first token is dropped, and the level 200, which
\* the config path would reject, is stepped and shown as row 1
C22_Witness ==
    /\ command.cmd = "Calculate"
    /\ command.levels = << "abc", "200" >>
    /\ pc = "exit"
    /\ exit_code = 0
    /\ stderr = ""
    /\ percents = << F(200) >>
    /\ ~StrictlyInside(percents)
    /\ stdout[2].grid = 1
    /\ Len(History) = 1

====
